---------------------------- MODULE Spec2Model ----------------------------
(***************************************************************************)
(* A model of src/app.py: the Excel splitter.  One run of the Streamlit    *)
(* button handler is modelled: the workbook is loaded, the data rows are   *)
(* partitioned, every part is transcribed into a fresh workbook and        *)
(* serialized, and the serialized parts are zipped and offered.            *)
(*                                                                         *)
(* A sheet is its openpyxl _cells dictionary (a function from <<row, col>> *)
(* to a cell) together with its set of merged ranges.  ws.cell(row, col)   *)
(* creates the cell when the dictionary has none, ws.merge_cells creates   *)
(* the range's anchor cell and a read-only MergedCell at every other       *)
(* coordinate of the range, and max_row / max_column are computed from the *)
(* dictionary's keys.                                                      *)
(***************************************************************************)
EXTENDS Integers, Sequences, FiniteSets, TLC

\* ----------------------------------------------------------------- bounds
MaxRow == 5
MaxCol == 2
MaxChunk == 3
MaxHeader == 2
MaxOverride == 3
MaxDataRows == 12
MaxChunkP == 5

VARIABLES
    pc,                \* position of the handler
    ws_cells,          \* source sheet: _cells
    ws_merged,         \* source sheet: merged ranges <<r1, c1, r2, c2>>
    loaded_cells,      \* history: ws_cells right after load_workbook
    chunk_size, header_rows, max_col_override,   \* the configuration
    max_col, max_row, data_rows, parts, i,       \* locals of the split
    ranges,            \* history: the <<start_idx, end_idx>> computed so far
    out_cells, out_merged, out_layout,           \* the current out_ws
    created,           \* number of Workbook() objects created
    outputs,           \* the list outputs: <<name, bytes>> entries
    zip_bytes,         \* the handler's zip_bytes: <<built, entries>>
    offered,           \* the download button was rendered
    errors             \* number of st.error messages shown

vars == <<pc, ws_cells, ws_merged, loaded_cells, chunk_size, header_rows,
          max_col_override, max_col, max_row, data_rows, parts, i, ranges,
          out_cells, out_merged, out_layout, created, outputs, zip_bytes,
          offered, errors>>

\* ------------------------------------------------------------------ cells
None == 0
DefaultStyle == 0
\* a cell just created by ws.cell(): no value, default style
BlankCell == [value |-> None, style |-> DefaultStyle]
\* the content of the uploaded sheet: every stored value is distinct
LoadedCell(r, c) == [value |-> 10 * r + c, style |-> 1 + ((r + c) % 2)]

SetMax(S) == CHOOSE x \in S : \A y \in S : y <= x

\* ws.max_row and ws.max_column: computed from the keys of _cells, 1 when empty
MaxRowOf(cells) ==
    IF DOMAIN cells = {} THEN 1 ELSE SetMax({p[1] : p \in DOMAIN cells})
MaxColumnOf(cells) ==
    IF DOMAIN cells = {} THEN 1 ELSE SetMax({p[2] : p \in DOMAIN cells})

\* the value read at a coordinate: None where the sheet has no cell
ValueAt(cells, p) == IF p \in DOMAIN cells THEN cells[p].value ELSE None

\* ws.cell(row, column) for every coordinate of S: missing cells are created
Touch(cells, S) ==
    [p \in (DOMAIN cells) \cup S |->
        IF p \in DOMAIN cells THEN cells[p] ELSE BlankCell]

\* --------------------------------------------------------- merged ranges
RangeCoords(m) == (m[1]..m[3]) \X (m[2]..m[4])
Anchor(m) == <<m[1], m[2]>>
\* the coordinate holds a MergedCell: its value is read-only
IsMergedCell(merged, p) ==
    \E m \in merged : p \in RangeCoords(m) /\ p # Anchor(m)

\* dst_ws.merge_cells(str(merged)) for every range of the source
MergeAll(cells, merged) ==
    Touch(cells, UNION {RangeCoords(m) : m \in merged})

\* ------------------------------------------------------------ partitioner
\* a part count that drops the short last part
CeilFloor(a, b) == a \div b
\* math.ceil(data_rows / chunk_size)
Ceil(a, b) == IF a % b = 0 THEN a \div b ELSE (a \div b) + 1
Min(a, b) == IF a <= b THEN a ELSE b
Max0(a) == IF a >= 0 THEN a ELSE 0

StartIdx(k) == k * chunk_size
\* an end index that is not clamped to the data rows
EndIdxUnclamped(k) == (k + 1) * chunk_size
EndIdx(k) == Min((k + 1) * chunk_size, data_rows)

\* a name built from the 0-based loop index
PartNameZeroBased(k, n) ==
    "part_" \o ToString(k) \o "_of_" \o ToString(n) \o ".xlsx"
\* f"part_{i+1}_of_{parts}.xlsx"
PartName(k, n) ==
    "part_" \o ToString(k + 1) \o "_of_" \o ToString(n) \o ".xlsx"


\* ------------------------------------------------------- the uploaded file
\* The regions the two cell loops visit for part k (lines 84-86 and 89-94).
\* a header loop that stops one row early
HeaderRegionShort == (1..(header_rows - 1)) \X (1..max_col)
HeaderRegion == (1..header_rows) \X (1..max_col)
PartLen(k) == EndIdx(k) - StartIdx(k)
DataRegionOut(k) == ((header_rows + 1)..(header_rows + PartLen(k))) \X (1..max_col)
DataRegionSrc(k) ==
    ((header_rows + 1 + StartIdx(k))..(header_rows + EndIdx(k))) \X (1..max_col)
\* a data loop that forgets the part's offset
SrcRowNoOffset(k, r) == r
\* line 91 with line 89: the source row copied into row r of part k's sheet
SrcRow(k, r) == r + StartIdx(k)

\* row-major order of the loops: p is visited no later than q
Before(p, q) == p[1] < q[1] \/ (p[1] = q[1] /\ p[2] <= q[2])
\* the first coordinate of region R whose destination cell is a MergedCell
FirstMerged(R) ==
    CHOOSE p \in R : /\ IsMergedCell(out_merged, p)
                     /\ \A q \in R : IsMergedCell(out_merged, q) => Before(p, q)

\* Sheets load_workbook can return: a grid of stored cells, at most one cell
\* of it never stored, at most one merged range (whose cells all exist: the
\* reader creates them).
MergeChoices(nr, nc) ==
    {m \in (1..nr) \X (1..nc) \X (1..nr) \X (1..nc) :
        m[1] <= m[3] /\ m[2] <= m[4] /\ <<m[1], m[2]>> # <<m[3], m[4]>>}

SheetCells(nr, nc, hole, merged) ==
    [p \in ((1..nr) \X (1..nc)) \ hole |->
        IF IsMergedCell(merged, p) THEN BlankCell ELSE LoadedCell(p[1], p[2])]

NoZip == [built |-> FALSE, entries |-> <<>>]

InitLocals ==
    /\ max_col = 0 /\ max_row = 0 /\ data_rows = 0 /\ parts = 0 /\ i = 0
    /\ ranges = <<>>
    /\ out_cells = <<>> /\ out_merged = {} /\ out_layout = "default"
    /\ created = 0 /\ outputs = <<>> /\ zip_bytes = NoZip
    /\ offered = FALSE /\ errors = 0

Init ==
    /\ pc = "start"
    /\ \E nr \in 0..MaxRow, nc \in 1..MaxCol :
         /\ ws_merged \in {{}} \cup {{m} : m \in MergeChoices(nr, nc)}
         /\ \E hole \in {{}} \cup {{p} : p \in (1..nr) \X (1..nc)} :
              /\ \A m \in ws_merged : hole \cap RangeCoords(m) = {}
              /\ ws_cells = SheetCells(nr, nc, hole, ws_merged)
    /\ loaded_cells = ws_cells
    /\ chunk_size \in 1..MaxChunk
    /\ header_rows \in 1..MaxHeader
    /\ max_col_override \in 0..MaxOverride
    /\ InitLocals

\* ------------------------------------------------- split_excel_to_xlsx_bytes
\* an except clause that still zips and offers the parts made so far
RaisePartial ==
    /\ pc' = "error"
    /\ errors' = errors + 1
    /\ zip_bytes' = [built |-> TRUE, entries |-> outputs]
    /\ offered' = TRUE
\* The handler's except clause (lines 177-178): one st.error, nothing else.
Raise ==
    /\ pc' = "error"
    /\ errors' = errors + 1
    /\ UNCHANGED <<zip_bytes, offered>>

\* line 58-59: the bytes are no workbook, or the sheet name is unknown
LoadFail ==
    /\ pc = "start"
    /\ Raise
    /\ UNCHANGED <<ws_cells, ws_merged, loaded_cells, chunk_size, header_rows,
                   max_col_override, max_col, max_row, data_rows, parts, i,
                   ranges, out_cells, out_merged, out_layout, created, outputs>>

\* lines 61-65
LoadedMaxCol == IF max_col_override # 0 THEN max_col_override
                ELSE MaxColumnOf(ws_cells)
LoadedDataRows == Max0(MaxRowOf(ws_cells) - header_rows)
\* a check that lets a sheet without data rows through
NoDataRowsStrict(d) == d < 0
\* line 67
NoDataRows(d) == d <= 0

\* lines 58-68: no data rows
LoadNoData ==
    /\ pc = "start"
    /\ NoDataRows(LoadedDataRows)
    /\ max_col' = LoadedMaxCol
    /\ max_row' = MaxRowOf(ws_cells)
    /\ data_rows' = LoadedDataRows
    /\ Raise
    /\ UNCHANGED <<ws_cells, ws_merged, loaded_cells, chunk_size, header_rows,
                   max_col_override, parts, i, ranges, out_cells, out_merged,
                   out_layout, created, outputs>>

\* lines 58-71
LoadOk ==
    /\ pc = "start"
    /\ ~NoDataRows(LoadedDataRows)
    /\ max_col' = LoadedMaxCol
    /\ max_row' = MaxRowOf(ws_cells)
    /\ data_rows' = LoadedDataRows
    /\ parts' = Ceil(LoadedDataRows, chunk_size)
    /\ outputs' = <<>>
    /\ i' = 0
    /\ pc' = "loop"
    /\ UNCHANGED <<ws_cells, ws_merged, loaded_cells, chunk_size, header_rows,
                   max_col_override, ranges, out_cells, out_merged, out_layout,
                   created, zip_bytes, offered, errors>>

\* lines 73-81: the part's range, a fresh workbook, copy_sheet_layout
BeginPart ==
    /\ pc = "loop"
    /\ i < parts
    /\ ranges' = Append(ranges, <<StartIdx(i), EndIdx(i)>>)
    /\ created' = created + 1
    /\ out_layout' = "source"
    /\ out_merged' = ws_merged
    /\ out_cells' = MergeAll(<<>>, ws_merged)
    /\ pc' = "header"
    /\ UNCHANGED <<ws_cells, ws_merged, loaded_cells, chunk_size, header_rows,
                   max_col_override, max_col, max_row, data_rows, parts, i,
                   outputs, zip_bytes, offered, errors>>

\* copy_cell over region R of the output sheet, reading source row SrcRow
CopyRegion(R, k) ==
    LET src == Touch(ws_cells, {<<SrcRow(k, p[1]), p[2]>> : p \in R})
    IN  [p \in (DOMAIN out_cells) \cup R |->
            IF p \in R THEN src[<<SrcRow(k, p[1]), p[2]>>] ELSE out_cells[p]]

\* the loops stop at the first MergedCell of the output sheet: its value is
\* read-only (AttributeError); the source cells up to there were visited
CopyUpTo(R, k) ==
    Touch(ws_cells, {<<SrcRow(k, p[1]), p[2]>> :
                        p \in {q \in R : Before(q, FirstMerged(R))}})

\* lines 83-86
CopyHeader ==
    /\ pc = "header"
    /\ \A p \in HeaderRegion : ~IsMergedCell(out_merged, p)
    /\ ws_cells' = Touch(ws_cells, HeaderRegion)
    /\ out_cells' =
         [p \in (DOMAIN out_cells) \cup HeaderRegion |->
            IF p \in HeaderRegion THEN Touch(ws_cells, HeaderRegion)[p]
            ELSE out_cells[p]]
    /\ pc' = "data"
    /\ UNCHANGED <<ws_merged, loaded_cells, chunk_size, header_rows,
                   max_col_override, max_col, max_row, data_rows, parts, i,
                   ranges, out_merged, out_layout, created, outputs, zip_bytes,
                   offered, errors>>

CopyHeaderFail ==
    /\ pc = "header"
    /\ \E p \in HeaderRegion : IsMergedCell(out_merged, p)
    /\ ws_cells' = Touch(ws_cells,
                         {q \in HeaderRegion : Before(q, FirstMerged(HeaderRegion))})
    /\ Raise
    /\ UNCHANGED <<ws_merged, loaded_cells, chunk_size, header_rows,
                   max_col_override, max_col, max_row, data_rows, parts, i,
                   ranges, out_cells, out_merged, out_layout, created, outputs>>

\* lines 88-94
CopyData ==
    /\ pc = "data"
    /\ \A p \in DataRegionOut(i) : ~IsMergedCell(out_merged, p)
    /\ ws_cells' = Touch(ws_cells, DataRegionSrc(i))
    /\ out_cells' = CopyRegion(DataRegionOut(i), i)
    /\ pc' = "save"
    /\ UNCHANGED <<ws_merged, loaded_cells, chunk_size, header_rows,
                   max_col_override, max_col, max_row, data_rows, parts, i,
                   ranges, out_merged, out_layout, created, outputs, zip_bytes,
                   offered, errors>>

CopyDataFail ==
    /\ pc = "data"
    /\ \E p \in DataRegionOut(i) : IsMergedCell(out_merged, p)
    /\ ws_cells' = CopyUpTo(DataRegionOut(i), i)
    /\ Raise
    /\ UNCHANGED <<ws_merged, loaded_cells, chunk_size, header_rows,
                   max_col_override, max_col, max_row, data_rows, parts, i,
                   ranges, out_cells, out_merged, out_layout, created, outputs>>

\* out_wb.save(bio); bio.read(): the workbook as written
Serialized == [cells |-> out_cells, merged |-> out_merged, layout |-> out_layout]

\* lines 96-100
Save ==
    /\ pc = "save"
    /\ outputs' = Append(outputs, <<PartName(i, parts), Serialized>>)
    /\ i' = i + 1
    /\ pc' = "loop"
    /\ UNCHANGED <<ws_cells, ws_merged, loaded_cells, chunk_size, header_rows,
                   max_col_override, max_col, max_row, data_rows, parts, ranges,
                   out_cells, out_merged, out_layout, created, zip_bytes,
                   offered, errors>>

\* line 97: serialization fails (memory, I/O)
SaveFail ==
    /\ pc = "save"
    /\ Raise
    /\ UNCHANGED <<ws_cells, ws_merged, loaded_cells, chunk_size, header_rows,
                   max_col_override, max_col, max_row, data_rows, parts, i,
                   ranges, out_cells, out_merged, out_layout, created, outputs>>

\* line 102, then line 159: the handler's parts is the list
Return ==
    /\ pc = "loop"
    /\ ~(i < parts)
    /\ pc' = "zip"
    /\ UNCHANGED <<ws_cells, ws_merged, loaded_cells, chunk_size, header_rows,
                   max_col_override, max_col, max_row, data_rows, parts, i,
                   ranges, out_cells, out_merged, out_layout, created, outputs,
                   zip_bytes, offered, errors>>

\* ------------------------------------------------------------------ make_zip
\* lines 105-111: one entry per file, in the list's order
ZipEntries(files) == [n \in 1..Len(files) |-> files[n]]

\* line 167
MakeZip ==
    /\ pc = "zip"
    /\ zip_bytes' = [built |-> TRUE, entries |-> ZipEntries(outputs)]
    /\ pc' = "offer"
    /\ UNCHANGED <<ws_cells, ws_merged, loaded_cells, chunk_size, header_rows,
                   max_col_override, max_col, max_row, data_rows, parts, i,
                   ranges, out_cells, out_merged, out_layout, created, outputs,
                   offered, errors>>

\* line 167: the archive cannot be allocated
MakeZipFail ==
    /\ pc = "zip"
    /\ Raise
    /\ UNCHANGED <<ws_cells, ws_merged, loaded_cells, chunk_size, header_rows,
                   max_col_override, max_col, max_row, data_rows, parts, i,
                   ranges, out_cells, out_merged, out_layout, created, outputs>>

\* lines 169-175
Offer ==
    /\ pc = "offer"
    /\ offered' = TRUE
    /\ pc' = "done"
    /\ UNCHANGED <<ws_cells, ws_merged, loaded_cells, chunk_size, header_rows,
                   max_col_override, max_col, max_row, data_rows, parts, i,
                   ranges, out_cells, out_merged, out_layout, created, outputs,
                   zip_bytes, errors>>

Next ==
    \/ LoadFail \/ LoadNoData \/ LoadOk
    \/ BeginPart \/ CopyHeader \/ CopyHeaderFail \/ CopyData \/ CopyDataFail
    \/ Save \/ SaveFail \/ Return
    \/ MakeZip \/ MakeZipFail \/ Offer

Spec == Init /\ [][Next]_vars

\* ---------------------------------------------------- the row partitioner
\* Lines 70-75 alone: the part count and the ranges of the loop, for any
\* number of data rows and any chunk size.
InitPartition ==
    /\ pc = "partition"
    /\ data_rows \in 1..MaxDataRows
    /\ chunk_size \in 1..MaxChunkP
    /\ parts = Ceil(data_rows, chunk_size)
    /\ i = 0 /\ ranges = <<>>
    /\ ws_cells = <<>> /\ ws_merged = {} /\ loaded_cells = <<>>
    /\ header_rows = 2 /\ max_col_override = 0 /\ max_col = 1
    /\ max_row = header_rows + data_rows
    /\ out_cells = <<>> /\ out_merged = {} /\ out_layout = "default"
    /\ created = 0 /\ outputs = <<>> /\ zip_bytes = NoZip
    /\ offered = FALSE /\ errors = 0

PartitionStep ==
    /\ pc = "partition"
    /\ i < parts
    /\ ranges' = Append(ranges, <<StartIdx(i), EndIdx(i)>>)
    /\ i' = i + 1
    /\ UNCHANGED <<pc, ws_cells, ws_merged, loaded_cells, chunk_size,
                   header_rows, max_col_override, max_col, max_row, data_rows,
                   parts, out_cells, out_merged, out_layout, created, outputs,
                   zip_bytes, offered, errors>>

SpecPartition == InitPartition /\ [][PartitionStep]_vars

\* ------------------------------------------------------------- properties
RECURSIVE SumLens(_)
SumLens(rs) ==
    IF rs = <<>> THEN 0
    ELSE (rs[Len(rs)][2] - rs[Len(rs)][1]) + SumLens(SubSeq(rs, 1, Len(rs) - 1))

RangeLen(n) == ranges[n][2] - ranges[n][1]
LoopFinished == i = parts /\ Len(ranges) = parts
Returned == pc \in {"zip", "offer", "done"}

\* C1: the ranges of parts 0..parts-1 partition [0, data_rows): each part
\* starts where the previous one ended (the first at 0), in ascending order,
\* and once the loop is over the lengths sum to data_rows and every offset
\* of [0, data_rows) lies in exactly one part.
C1_RangesPartition ==
    /\ \A n \in 1..Len(ranges) :
         /\ ranges[n][1] = (IF n = 1 THEN 0 ELSE ranges[n - 1][2])
         /\ ranges[n][1] <= ranges[n][2]
    /\ LoopFinished =>
         /\ SumLens(ranges) = data_rows
         /\ \A x \in 0..(data_rows - 1) :
              Cardinality({n \in 1..Len(ranges) :
                              ranges[n][1] <= x /\ x < ranges[n][2]}) = 1

C1_Witness ==
    /\ pc = "partition" /\ LoopFinished
    /\ Len(ranges) >= 3
    /\ RangeLen(Len(ranges)) < chunk_size

\* C2: there are exactly ceil(data_rows / chunk_size) parts (the least n with
\* n * chunk_size >= data_rows); every part but the last has chunk_size rows,
\* and the last has chunk_size rows when data_rows is a multiple of
\* chunk_size and data_rows mod chunk_size rows otherwise; no part is empty.
C2_PartCountAndLengths ==
    LoopFinished /\ data_rows > 0 =>
        /\ Len(ranges) * chunk_size >= data_rows
        /\ (Len(ranges) - 1) * chunk_size < data_rows
        /\ \A n \in 1..(Len(ranges) - 1) : RangeLen(n) = chunk_size
        /\ RangeLen(Len(ranges)) =
             (IF data_rows % chunk_size = 0 THEN chunk_size
              ELSE data_rows % chunk_size)
        /\ \A n \in 1..Len(ranges) : RangeLen(n) > 0

C2_Witness ==
    /\ pc = "partition" /\ LoopFinished
    /\ Len(ranges) = 3
    /\ data_rows % chunk_size # 0
    /\ chunk_size >= 2

\* The rows of columns 1..w the source holds after the header rows, and the
\* rows of columns 1..w the returned workbooks hold after theirs, part after
\* part (part n has RangeLen(n) data rows).
SourceData(w) ==
    [j \in 1..data_rows |->
        [c \in 1..w |-> ValueAt(loaded_cells, <<header_rows + j, c>>)]]

RECURSIVE ConcatData(_, _)
ConcatData(n, w) ==
    IF n = 0 THEN <<>>
    ELSE ConcatData(n - 1, w) \o
         [j \in 1..RangeLen(n) |->
            [c \in 1..w |-> ValueAt(outputs[n][2].cells, <<header_rows + j, c>>)]]

C4_HeaderAllColumns ==
    \A n \in 1..Len(outputs) :
        \A p \in (1..header_rows) \X (1..MaxColumnOf(loaded_cells)) :
            ValueAt(outputs[n][2].cells, p) = ValueAt(loaded_cells, p)

\* C4 amended: in every output workbook (every part index) the cells of rows
\* 1..header_rows and columns 1..max_col hold the values of the same cells of
\* the source sheet, max_col being the override when one is given and the
\* source's max column otherwise.
C4_HeaderCopiedColumns ==
    \A n \in 1..Len(outputs) :
        \A p \in (1..header_rows) \X (1..max_col) :
            /\ p \in DOMAIN outputs[n][2].cells
            /\ outputs[n][2].cells[p].value = ValueAt(loaded_cells, p)

C4_Witness ==
    /\ pc = "done"
    /\ Len(outputs) >= 2
    /\ header_rows >= 2
    /\ \A p \in (1..header_rows) \X (1..max_col) :
         ValueAt(loaded_cells, p) # None

\* C5: when the sheet has no rows beyond the header rows, the split ends in
\* the error, with no output workbook created or serialized and no archive.
C5_NoDataRowsFails ==
    (pc # "start" /\ MaxRowOf(loaded_cells) <= header_rows) =>
        /\ pc = "error"
        /\ errors = 1
        /\ created = 0
        /\ outputs = <<>>
        /\ ~zip_bytes.built
        /\ ~offered

C5_Witness ==
    /\ pc = "error"
    /\ max_row # 0
    /\ max_row = header_rows
    /\ DOMAIN loaded_cells # {}

\* C6: a failed split builds no archive and offers nothing, whatever was
\* serialized before the failure, and shows one error message; an archive
\* that is built holds every part.
C6_AllOrNothing ==
    /\ pc = "error" => (~zip_bytes.built /\ ~offered /\ errors = 1)
    /\ pc # "error" => errors = 0
    /\ zip_bytes.built => Len(zip_bytes.entries) = parts
    /\ offered => zip_bytes.built

C6_Witness ==
    /\ pc = "error"
    /\ Len(outputs) >= 1
    /\ i >= 1

\* C7: the archive holds exactly parts entries, in part order; entry n is
\* named part_<n>_of_<parts>.xlsx and holds the bytes of the n-th part (the
\* one whose data rows start at source row header_rows + 1 + (n-1) *
\* chunk_size); the names are pairwise distinct.
C7_ArchiveEntries ==
    zip_bytes.built =>
        /\ Len(zip_bytes.entries) = parts
        /\ \A n \in 1..Len(zip_bytes.entries) :
             /\ zip_bytes.entries[n][1] =
                  "part_" \o ToString(n) \o "_of_" \o ToString(parts) \o ".xlsx"
             /\ zip_bytes.entries[n][2] = outputs[n][2]
             /\ \A c \in 1..max_col :
                  ValueAt(zip_bytes.entries[n][2].cells, <<header_rows + 1, c>>)
                    = ValueAt(loaded_cells,
                              <<header_rows + 1 + (n - 1) * chunk_size, c>>)
        /\ \A a, b \in 1..Len(zip_bytes.entries) :
             a # b => zip_bytes.entries[a][1] # zip_bytes.entries[b][1]

C7_Witness ==
    /\ zip_bytes.built
    /\ Len(zip_bytes.entries) >= 3

\* C8 as stated: every output workbook's sheet has exactly header_rows +
\* part_length rows; nothing copy_sheet_layout copies extends it further.
C8_OutputRowCount ==
    \A n \in 1..Len(outputs) :
        MaxRowOf(outputs[n][2].cells) = header_rows + RangeLen(n)

\* C9 as stated: from loading to the return the source sheet's cells, values
\* and extent are those it had right after loading.
C9_SourceUnchanged ==
    /\ DOMAIN ws_cells = DOMAIN loaded_cells
    /\ \A p \in DOMAIN loaded_cells : ws_cells[p] = loaded_cells[p]
    /\ MaxRowOf(ws_cells) = MaxRowOf(loaded_cells)
    /\ MaxColumnOf(ws_cells) = MaxColumnOf(loaded_cells)

\* C10 as stated: a part's bytes are committed to the archive and released
\* before the next part is serialized, so the bytes of at most one output
\* workbook that is not yet in the archive are held at any time.
C10_OneBufferAtATime ==
    ~zip_bytes.built => Len(outputs) <= 1

=============================================================================
